---------------------------- MODULE Spec2Model ----------------------------
(* A model of src/app.py: the POST /process handler (process_audio), the   *)
(* helpers it calls (convert_to_wav, split_audio, compress_to_ogg,         *)
(* merge_ogg_files, delete_later), the background deletion worker and the  *)
(* GET /files handler (serve_file).                                        *)
(* External tools (ffmpeg, ffprobe) are modelled by their outcome: they    *)
(* succeed, exit non-zero (CalledProcessError) or exceed the timeout       *)
(* (TimeoutExpired).                                                       *)
EXTENDS Integers, Sequences, FiniteSets, TLC

--------------------------------------------------------------------------
(* Program constants *)

\* MAX_MB default, app.py line 9
MAX_MB == 25
\* 1024 * 1024, the divisor of os.path.getsize in lines 97 and 173
MiB == 1048576
\* "-ar 16000" of convert_to_wav and split_audio
SampleRate == 16000
\* "-ac 1"
Channels == 1
\* pcm_s16le: two bytes per sample
BytesPerSample == 2
\* segment_seconds=300 in process_audio's call of split_audio
SEGMENT_SECONDS == 300
\* "part_%03d.wav": the index is zero-padded to three digits
PadWidth == 3

(* Bounds of the model *)

\* largest size, in MiB, one encoder invocation writes
MaxOggMB == 2
\* largest retention delay, in ticks, of a deletion worker
MaxDelay == 1
\* deletion workers that may run on one path
MaxWorkers == 2
\* largest number of segments tried in the split_audio ordering runs
MaxSegments == 1001
\* segment counts below this are all tried in the ordering runs
SmallSegments == 30

--------------------------------------------------------------------------
(* Inputs of a request *)

\* per-request ceilings (query parameter max_mb, an int)
MaxMbValues == {1, 5, MAX_MB}
\* durations of the uploaded audio, in seconds
Durations == {100, 200, 800, 900}
\* configured retention delays (AUTO_DELETE_AFTER_SEC), in ticks
Delays == 0..MaxDelay
\* sizes an encoder invocation may write, in bytes
OggSizes == {k * MiB : k \in 1..MaxOggMB}
\* outcomes of one external tool invocation
ToolResults == {"ok", "error", "timeout"}

--------------------------------------------------------------------------
(* Paths.  A path is a record: the file's name inside the workspace, the   *)
(* segment index for the files of parts/, and the suffix appended to an    *)
(* output path (out_path + ".part1.ogg", output_path + ".txt"), and the    *)
(* number of ".." components that lead out of the workspace (0 for every   *)
(* name the program chooses itself).                                       *)

Path(name, idx, suffix) ==
    [name |-> name, idx |-> idx, suffix |-> suffix, up |-> 0]

\* UPLOAD_DIR and os.path.join(UPLOAD_DIR, uid)
upload_dir == Path("UPLOAD_DIR", 0, "")
work_dir == Path("work_dir", 0, "")
wav_path == Path("converted.wav", 0, "")
parts_dir == Path("parts", 0, "")
out_path == Path("compressed.ogg", 0, "")
final_path == Path("merged_final.ogg", 0, "")
PartWav(i) == Path("part.wav", i, "")

\* p.replace(".wav", ".ogg")
ReplaceExt(p) == [p EXCEPT !.name = "part.ogg"]
\* out_path + ".part1.ogg", out_path + ".part2.ogg"
Tmp1(out) == [out EXCEPT !.suffix = ".part1.ogg"]
Tmp2(out) == [out EXCEPT !.suffix = ".part2.ogg"]
\* output_path + ".txt"
ListPath(out) == [out EXCEPT !.suffix = ".txt"]

\* the directory a path lies in
Parent(p) ==
    IF p.up > 0 THEN upload_dir
    ELSE IF p.name \in {"part.wav", "part.ogg"} THEN parts_dir
    ELSE work_dir

--------------------------------------------------------------------------
(* Sizes *)

\* bytes of 16 kHz mono 16-bit PCM of d seconds (the container header is
\* left out: it does not change any comparison made below)
WavSize(d) == SampleRate * Channels * BytesPerSample * d

\* the comparison with a megabyte taken as 10^6 bytes
NeedsSplitDecimalMB(size, max) == size > max * 1000000

\* size_mb > max_mb, with size_mb = getsize / (1024 * 1024)
NeedsSplit(size, max) == size > max * MiB

\* the thresholds taken inclusively
BitrateInclusive(size) ==
    IF size <= 10 * MiB THEN 48
    ELSE IF size <= 30 * MiB THEN 32
    ELSE 24

\* lines 97-105: the bitrate compress_to_ogg chooses, in kbit/s, from
\* size_mb = getsize(in_path) / (1024 * 1024)
Bitrate(size) ==
    IF size < 10 * MiB THEN 48
    ELSE IF size < 30 * MiB THEN 32
    ELSE 24

--------------------------------------------------------------------------
(* split_audio: the names of the segment files and the order of the list   *)
(* it returns.                                                             *)

RECURSIVE Digits(_)
\* the decimal digits of n, most significant first
Digits(n) == IF n < 10 THEN <<n>> ELSE Digits(n \div 10) \o <<n % 10>>

\* "%03d": at least PadWidth digits, zero-padded on the left
Pad(n) ==
    LET d == Digits(n)
    IN  IF Len(d) >= PadWidth THEN d
        ELSE [k \in 1..(PadWidth - Len(d)) |-> 0] \o d

\* the part of the name "part_%03d.wav" that differs between segments, as
\* character codes: the digits ('0' is 48) and the '.' (46) that follows
PartName(n) == [k \in 1..Len(Pad(n)) |-> 48 + Pad(n)[k]] \o <<46>>

\* a < b in Python's order of str: by the first differing character, a
\* proper prefix first
StrLess(a, b) ==
    \/ \E k \in 1..Len(a) :
          /\ k <= Len(b)
          /\ a[k] < b[k]
          /\ \A j \in 1..(k - 1) : a[j] = b[j]
    \/ /\ Len(a) < Len(b)
       /\ \A j \in 1..Len(a) : a[j] = b[j]

\* sorted(os.listdir(out_dir)): the segment indices in the order of their
\* file names
SortedListing(S) ==
    LET name == [i \in S |-> PartName(i)]
        rank == [i \in S |-> Cardinality({j \in S : StrLess(name[j], name[i])})]
    IN  \* (the equalities make TLC tabulate both functions once)
        IF name = name /\ rank = rank
        THEN [k \in 1..Cardinality(S) |-> CHOOSE i \in S : rank[i] = k - 1]
        ELSE << >>

\* the segment muxer with -segment_time seg on d seconds of audio: one file
\* per started window of seg seconds, numbered from 0
SegmentCount(d, seg) ==
    IF d <= seg THEN 1 ELSE (d + seg - 1) \div seg

\* seconds of audio in segment i of n
SegmentSeconds(d, seg, i, n) == IF i < n - 1 THEN seg ELSE d - (n - 1) * seg

--------------------------------------------------------------------------
(* The file system: files maps each existing regular file to its size in   *)
(* bytes, dirs is the set of existing directories.                         *)

Put(f, p, s) == [q \in (DOMAIN f) \cup {p} |-> IF q = p THEN s ELSE f[q]]
Del(f, p) == [q \in (DOMAIN f) \ {p} |-> f[q]]
Exists(f, d, p) == p \in DOMAIN f \/ p \in d

RECURSIVE SumRange(_, _, _, _)
\* total size of the files list[lo..hi] (halving keeps the evaluation
\* shallow for long lists)
SumRange(f, list, lo, hi) ==
    IF lo > hi THEN 0
    ELSE IF lo = hi
         THEN (IF list[lo] \in DOMAIN f THEN f[list[lo]] ELSE 0)
    ELSE LET mid == (lo + hi) \div 2
         IN  SumRange(f, list, lo, mid) + SumRange(f, list, mid + 1, hi)

\* total size of the files of a list (a stream-copy concatenation)
SumSizes(f, list) == SumRange(f, list, 1, Len(list))

\* merge_ogg_files(file_list, output_path) when the concat tool ends with
\* result r: the list file is written, the tool runs, and only after a
\* successful run is the list file removed (line 92 follows run_ffmpeg)
MergeOggFiles(f, file_list, output, r) ==
    LET listed == Put(f, ListPath(output), Len(file_list))
    IN  IF r = "ok"
        THEN Del(Put(listed, output, SumSizes(f, file_list)), ListPath(output))
        ELSE listed

--------------------------------------------------------------------------
(* State *)

VARIABLES
    max_mb,          \* the request's ceiling, in MB
    audio_seconds,   \* duration of the uploaded audio
    delay,           \* AUTO_DELETE_AFTER_SEC, in ticks
    filename,        \* file.filename of the upload
    segment_seconds, \* the segment_seconds argument of split_audio
    pc,              \* position of the handler process_audio
    mode,            \* branch taken at line 177: "split", "single" or "none"
    dirs,            \* existing directories
    files,           \* existing files and their sizes
    parts,           \* list returned by split_audio, as segment indices
    ogg_parts,       \* ogg_parts of process_audio
    probe_duration,  \* duration read from ffprobe at line 127 (-1: not read)
    concat_list,     \* lines of the list file merge_ogg_files wrote last
    resp,            \* what the request ended in
    log,             \* what has happened during the request
    workers,         \* the threads started by delete_later
    bitrate,         \* bitrate of the running compress_to_ogg call, in kbit/s
    cmd_bitrate,     \* "-b:a" of the encoder command run last (0: none)
    get_resp         \* answer to the last GET /files/{subpath}

inputs == <<max_mb, audio_seconds, delay, segment_seconds, filename>>
enc == <<bitrate, cmd_bitrate>>
fs == <<dirs, files>>
locals == <<mode, parts, ogg_parts, probe_duration, concat_list>>
vars == <<inputs, pc, fs, locals, resp, log, workers, enc, get_resp>>

NoPath == Path("", 0, "")

\* a file name: the number of leading ".." components and the last component
Name(up, base) == [up |-> up, base |-> base]
\* a name that meets no name the program uses
PlainName == Name(0, "upload")

\* line 163: os.path.join(work_dir, file.filename)
in_path == [Path(filename.base, 0, "") EXCEPT !.up = filename.up]

\* no GET /files request has been answered
NoGet == [path |-> NoPath, found |-> "none", status |-> "none"]

NoResponse ==
    [status |-> "none", mode |-> "", detail |-> "", artifact |-> NoPath,
     parts_count |-> 0]

\* an exception that left process_audio outside its try block (lines
\* 160-166): no HTTPException is built, no detail is set
Unhandled == [NoResponse EXCEPT !.status = "unhandled"]

\* the two except clauses of process_audio, lines 211-214
Http500(exc) ==
    [NoResponse EXCEPT
        !.status = "http500",
        !.detail = IF exc = "CalledProcessError" THEN "ffmpeg failed: e"
                   ELSE "str(e)"]

\* subprocess.run(check=True, timeout=...) raising on tool result r
Exc(r) == IF r = "error" THEN "CalledProcessError" ELSE "TimeoutExpired"

Workers == 1..MaxWorkers
\* a thread: paths is the argument of delete_later, rest what the loop of
\* line 28 has still to visit, todo the system calls rmtree has still to
\* make, caught whether an exception reached the except clause
IdleWorker ==
    [st |-> "idle", rem |-> 0, paths |-> << >>, rest |-> << >>,
     todo |-> << >>, caught |-> FALSE]

\* the state a request starts in
InitRequest ==
    /\ pc = "makedirs"
    /\ mode = "none"
    /\ dirs = {}
    /\ files = << >>
    /\ parts = << >>
    /\ ogg_parts = << >>
    /\ probe_duration = -1
    /\ concat_list = << >>
    /\ resp = NoResponse
    /\ log = {}
    /\ workers = [w \in Workers |-> IdleWorker]
    /\ bitrate = 0
    /\ cmd_bitrate = 0
    /\ get_resp = NoGet

Init ==
    /\ filename = PlainName
    /\ max_mb \in MaxMbValues
    /\ audio_seconds \in Durations
    /\ delay \in Delays
    /\ segment_seconds = SEGMENT_SECONDS
    /\ InitRequest

--------------------------------------------------------------------------
(* process_audio *)

\* an exception caught at lines 211-214 ends the request
Fail(exc) ==
    /\ resp' = Http500(exc)
    /\ pc' = "done"

\* line 162: os.makedirs(work_dir), outside the try block
MakeWorkDir ==
    /\ pc = "makedirs"
    /\ \E ok \in BOOLEAN :
          IF ok
          THEN /\ dirs' = dirs \cup {work_dir}
               /\ pc' = "upload"
               /\ UNCHANGED resp
          ELSE /\ resp' = Unhandled
               /\ pc' = "done"
               /\ UNCHANGED dirs
    /\ UNCHANGED <<inputs, enc, get_resp, files, locals, log, workers>>

\* lines 165-166: the upload is written, outside the try block (its size
\* is never read by the program and is recorded as 0)
WriteUpload ==
    /\ pc = "upload"
    /\ \E ok \in BOOLEAN :
          IF ok
          THEN /\ files' = Put(files, in_path, 0)
               /\ pc' = "convert"
               /\ UNCHANGED resp
          ELSE /\ resp' = Unhandled
               /\ pc' = "done"
               /\ UNCHANGED files
    /\ UNCHANGED <<inputs, enc, get_resp, dirs, locals, log, workers>>

\* line 171: convert_to_wav(in_path, wav_path); the tool refuses an output
\* that is its own input and exits non-zero
ConvertResults == IF in_path = wav_path THEN {"error"} ELSE ToolResults

ConvertToWav ==
    /\ pc = "convert"
    /\ \E r \in ConvertResults :
          IF r = "ok"
          THEN /\ files' = Put(files, wav_path, WavSize(audio_seconds))
               /\ pc' = "measure"
               /\ UNCHANGED resp
          ELSE /\ Fail(Exc(r))
               /\ UNCHANGED files
    /\ UNCHANGED <<inputs, enc, get_resp, dirs, locals, log, workers>>

\* lines 173-177: the size of the normalized file decides the branch
Measure ==
    /\ pc = "measure"
    /\ IF NeedsSplit(files[wav_path], max_mb)
       THEN mode' = "split" /\ pc' = "split"
       ELSE mode' = "single" /\ pc' = "c_encode"
    /\ UNCHANGED <<inputs, enc, get_resp, fs, parts, ogg_parts,
                   probe_duration, concat_list, resp, log, workers>>

\* the files split_audio's tool writes for n segments
WithSegments(f, d, seg, n) ==
    [q \in (DOMAIN f) \cup {PartWav(i) : i \in 0..(n - 1)} |->
        IF q \in DOMAIN f THEN f[q]
        ELSE WavSize(SegmentSeconds(d, seg, q.idx, n))]

\* lines 178-179: split_audio(wav_path, parts_dir, segment_seconds)
SplitAudio ==
    /\ pc = "split"
    /\ log' = log \cup {"split_audio"}
    /\ IF parts_dir \in DOMAIN files
       THEN \* os.makedirs(out_dir, exist_ok=True) on an existing file
            /\ Fail("FileExistsError")
            /\ UNCHANGED <<fs, parts>>
       ELSE /\ dirs' = dirs \cup {parts_dir}
            /\ \E r \in ToolResults :
                  IF r = "ok"
                  THEN LET n == SegmentCount(audio_seconds, segment_seconds)
                       IN  /\ files' = WithSegments(files, audio_seconds,
                                                    segment_seconds, n)
                           /\ parts' = SortedListing(0..(n - 1))
                           /\ pc' = "loop"
                           /\ UNCHANGED resp
                  ELSE /\ Fail(Exc(r))
                       /\ UNCHANGED <<files, parts>>
    /\ UNCHANGED <<inputs, enc, get_resp, mode, ogg_parts, probe_duration,
                   concat_list, workers>>

\* the loop left one segment early
LoopSkipsLast ==
    /\ pc = "loop"
    /\ pc' = IF Len(ogg_parts) + 1 < Len(parts)
             THEN "c_encode" ELSE "merge_final"
    /\ UNCHANGED <<inputs, enc, get_resp, fs, locals, resp, log, workers>>

\* line 181: the next segment, or the end of the loop
Loop ==
    /\ pc = "loop"
    /\ pc' = IF Len(ogg_parts) < Len(parts) THEN "c_encode" ELSE "merge_final"
    /\ UNCHANGED <<inputs, enc, get_resp, fs, locals, resp, log, workers>>

--------------------------------------------------------------------------
(* compress_to_ogg, as called at line 183 (a segment) or line 200 (the     *)
(* whole normalized file)                                                  *)

\* in_path and out_path of the running call
CIn == IF mode = "split" THEN PartWav(parts[Len(ogg_parts) + 1]) ELSE wav_path
COut == IF mode = "split" THEN ReplaceExt(CIn) ELSE out_path

\* seconds of audio in the file the running call reads
CInSeconds ==
    IF mode = "split"
    THEN SegmentSeconds(audio_seconds, segment_seconds, CIn.idx, Len(parts))
    ELSE audio_seconds

\* compress_to_ogg returns: line 184 appends out_p, line 201 follows
CReturn ==
    IF mode = "split"
    THEN /\ ogg_parts' = Append(ogg_parts, COut)
         /\ pc' = "loop"
    ELSE /\ pc' = "schedule"
         /\ UNCHANGED ogg_parts

\* lines 115-117: the encoder runs on the whole input with a 40 s budget
CEncode ==
    /\ pc = "c_encode"
    /\ bitrate' = Bitrate(files[CIn])
    /\ cmd_bitrate' = bitrate'
    /\ \E r \in ToolResults :
          CASE r = "ok" ->
                  /\ \E s \in OggSizes : files' = Put(files, COut, s)
                  /\ CReturn
                  /\ UNCHANGED <<resp, log>>
            [] r = "error" ->
                  /\ Fail("CalledProcessError")
                  /\ log' = log \cup {"encode_error"}
                  /\ UNCHANGED <<files, ogg_parts>>
            [] r = "timeout" ->
                  /\ pc' = "c_probe"
                  /\ log' = log \cup {"encode_timeout"}
                  /\ UNCHANGED <<files, ogg_parts, resp>>
    /\ UNCHANGED <<inputs, get_resp, dirs, mode, parts, probe_duration,
                   concat_list, workers>>

\* lines 122-128: ffprobe prints the duration, nothing (it failed: its exit
\* status is not checked), or text that float() rejects with ValueError;
\* or it cannot be started and subprocess.run raises FileNotFoundError
CProbe ==
    /\ pc = "c_probe"
    /\ \E out \in {"number", "empty", "text", "absent"} :
          CASE out = "number" ->
                  /\ probe_duration' = CInSeconds
                  /\ pc' = "c_half1"
                  /\ UNCHANGED <<resp, log>>
            [] out = "empty" ->
                  /\ probe_duration' = 0
                  /\ pc' = "c_half1"
                  /\ UNCHANGED <<resp, log>>
            [] out = "text" ->
                  /\ Fail("ValueError")
                  /\ log' = log \cup {"fallback_failed"}
                  /\ UNCHANGED probe_duration
            [] out = "absent" ->
                  /\ Fail("FileNotFoundError")
                  /\ log' = log \cup {"fallback_failed"}
                  /\ UNCHANGED probe_duration
    /\ UNCHANGED <<inputs, enc, get_resp, fs, mode, parts, ogg_parts,
                   concat_list, workers>>

\* one half encode of the fallback writing tmp (lines 130-133, 134-137)
HalfEncode(tmp, next) ==
    /\ cmd_bitrate' = bitrate
    /\ \E r \in ToolResults :
          IF r = "ok"
          THEN /\ \E s \in OggSizes : files' = Put(files, tmp, s)
               /\ pc' = next
               /\ log' = log \cup {"halves"}
               /\ UNCHANGED resp
          ELSE /\ Fail(Exc(r))
               /\ log' = log \cup {"fallback_failed"}
               /\ UNCHANGED files
    /\ UNCHANGED <<inputs, bitrate, get_resp, dirs, locals, workers>>

CHalf1 == pc = "c_half1" /\ HalfEncode(Tmp1(COut), "c_half2")
CHalf2 == pc = "c_half2" /\ HalfEncode(Tmp2(COut), "c_merge")

\* lines 139-141: the halves are merged into out_path and removed
CMerge ==
    /\ pc = "c_merge"
    /\ LET halves == <<Tmp1(COut), Tmp2(COut)>>
       IN  /\ concat_list' = halves
           /\ \E r \in ToolResults :
                 LET merged == MergeOggFiles(files, halves, COut, r)
                 IN  IF r = "ok"
                     THEN /\ files' = Del(Del(merged, halves[1]), halves[2])
                          /\ CReturn
                          /\ UNCHANGED <<resp, log>>
                     ELSE /\ files' = merged
                          /\ Fail(Exc(r))
                          /\ log' = log \cup {"fallback_failed"}
                          /\ UNCHANGED ogg_parts
    /\ UNCHANGED <<inputs, enc, get_resp, dirs, mode, parts, probe_duration,
                   workers>>

--------------------------------------------------------------------------
(* process_audio, continued *)

\* lines 186-187: merge_ogg_files(ogg_parts, final_path)
MergeFinal ==
    /\ pc = "merge_final"
    /\ concat_list' = ogg_parts
    /\ \E r \in ToolResults :
          /\ files' = MergeOggFiles(files, ogg_parts, final_path, r)
          /\ IF r = "ok"
             THEN pc' = "schedule" /\ UNCHANGED resp
             ELSE Fail(Exc(r))
    /\ UNCHANGED <<inputs, enc, get_resp, dirs, mode, parts, ogg_parts,
                   probe_duration, log, workers>>

\* delete_later(paths, delay), lines 24-37: a daemon thread is started and
\* the call returns; the thread first sleeps
DeleteLater(w, paths, d) ==
    /\ workers[w].st = "idle"
    /\ workers' = [workers EXCEPT ![w] =
                      [IdleWorker EXCEPT !.st = "sleeping", !.rem = d,
                                         !.paths = paths, !.rest = paths]]

\* lines 188 and 201: delete_later([work_dir])
Schedule ==
    /\ pc = "schedule"
    /\ DeleteLater(1, <<work_dir>>, delay)
    /\ pc' = "respond"
    /\ UNCHANGED <<inputs, enc, get_resp, fs, locals, resp, log>>

\* lines 190-196 and 203-209: the response is built; the "compressed"
\* response reads the size of out_path
Respond ==
    /\ pc = "respond"
    /\ IF mode = "split"
       THEN resp' = [NoResponse EXCEPT
                        !.status = "ok",
                        !.mode = "split_compressed_merged",
                        !.artifact = final_path,
                        !.parts_count = Len(ogg_parts)]
       ELSE IF out_path \in DOMAIN files
            THEN resp' = [NoResponse EXCEPT
                             !.status = "ok",
                             !.mode = "compressed",
                             !.artifact = out_path]
            ELSE resp' = Http500("FileNotFoundError")
    /\ pc' = "done"
    /\ UNCHANGED <<inputs, enc, get_resp, fs, locals, log, workers>>

--------------------------------------------------------------------------
(* The thread of delete_later, _worker (lines 26-36)                       *)

\* what lies directly in directory d
Children(f, ds, d) ==
    {p \in (DOMAIN f) \cup ds : p # work_dir /\ Parent(p) = d}

RECURSIVE SeqOf(_)
\* the entries of a directory in the order they are listed
SeqOf(S) ==
    IF S = {} THEN << >>
    ELSE LET x == CHOOSE y \in S : TRUE IN <<x>> \o SeqOf(S \ {x})

Op(op, p) == [op |-> op, path |-> p]

\* shutil.rmtree lists a directory, then removes each entry (a directory
\* by a recursive call, a file by unlink), then the directory itself
ScanOps(f, ds, d) ==
    LET entries == SeqOf(Children(f, ds, d))
    IN  [k \in 1..Len(entries) |->
            IF entries[k] \in ds THEN Op("scan", entries[k])
            ELSE Op("unlink", entries[k])]
        \o <<Op("rmdir", d)>>

\* an except clause that names PermissionError only
ExceptPermissionOnly(exc) == exc = "PermissionError"

\* the bare "except: pass" of lines 34-35 swallows every exception
ExceptPass(exc) == TRUE

\* time.sleep(delay): one tick of the clock passes for every sleeping thread
Tick ==
    /\ \E w \in Workers : workers[w].st = "sleeping" /\ workers[w].rem > 0
    /\ workers' = [w \in Workers |->
                      IF workers[w].st = "sleeping" /\ workers[w].rem > 0
                      THEN [workers[w] EXCEPT !.rem = @ - 1]
                      ELSE workers[w]]
    /\ UNCHANGED <<inputs, enc, get_resp, pc, fs, locals, resp, log>>

\* the sleep is over
Wake(w) ==
    /\ workers[w].st = "sleeping"
    /\ workers[w].rem = 0
    /\ workers' = [workers EXCEPT ![w].st = "next"]
    /\ UNCHANGED <<inputs, enc, get_resp, pc, fs, locals, resp, log>>

\* lines 28-33: the next path is tested with isdir, then with exists
NextPath(w) ==
    /\ workers[w].st = "next"
    /\ LET ps == workers[w].rest
       IN  workers' = [workers EXCEPT ![w] =
              IF ps = << >> THEN [@ EXCEPT !.st = "done"]
              ELSE IF Head(ps) \in dirs
                   THEN [@ EXCEPT !.st = "rmtree",
                                  !.todo = <<Op("scan", Head(ps))>>]
              ELSE IF Head(ps) \in DOMAIN files
                   THEN [@ EXCEPT !.st = "remove"]
              ELSE [@ EXCEPT !.rest = Tail(ps)]]
    /\ UNCHANGED <<inputs, enc, get_resp, pc, fs, locals, resp, log>>

\* line 31: one system call of shutil.rmtree(p, ignore_errors=True); a call
\* that fails (the entry is gone, the directory is not empty) is ignored
RmtreeStep(w) ==
    /\ workers[w].st = "rmtree"
    /\ LET todo == workers[w].todo
       IN  IF todo = << >>
           THEN /\ workers' = [workers EXCEPT ![w].st = "next",
                                              ![w].rest = Tail(@)]
                /\ UNCHANGED fs
           ELSE LET o == Head(todo)
                IN  CASE o.op = "scan" ->
                           /\ workers' = [workers EXCEPT ![w].todo =
                                 (IF o.path \in dirs
                                  THEN ScanOps(files, dirs, o.path)
                                  ELSE << >>) \o Tail(todo)]
                           /\ UNCHANGED fs
                      [] o.op = "unlink" ->
                           /\ workers' = [workers EXCEPT ![w].todo = Tail(todo)]
                           /\ files' = IF o.path \in DOMAIN files
                                       THEN Del(files, o.path) ELSE files
                           /\ UNCHANGED dirs
                      [] o.op = "rmdir" ->
                           /\ workers' = [workers EXCEPT ![w].todo = Tail(todo)]
                           /\ dirs' = IF /\ o.path \in dirs
                                         /\ Children(files, dirs, o.path) = {}
                                      THEN dirs \ {o.path} ELSE dirs
                           /\ UNCHANGED files
    /\ UNCHANGED <<inputs, enc, get_resp, pc, locals, resp, log>>

\* line 33: os.remove(p) raises FileNotFoundError when p is gone by now
Remove(w) ==
    /\ workers[w].st = "remove"
    /\ LET p == Head(workers[w].rest)
       IN  IF p \in DOMAIN files
           THEN /\ files' = Del(files, p)
                /\ workers' = [workers EXCEPT ![w].st = "next",
                                              ![w].rest = Tail(@)]
           ELSE /\ UNCHANGED files
                /\ workers' = [workers EXCEPT ![w] =
                      IF ExceptPass("FileNotFoundError")
                      THEN [@ EXCEPT !.st = "next", !.rest = Tail(@),
                                      !.caught = TRUE]
                      ELSE [@ EXCEPT !.st = "raised"]]
    /\ UNCHANGED <<inputs, enc, get_resp, pc, dirs, locals, resp, log>>

\* a thread whose paths are directories (or gone): line 33 is not reached
DirWorkerStep(w) == Wake(w) \/ NextPath(w) \/ RmtreeStep(w)

WorkerStep(w) == DirWorkerStep(w) \/ Remove(w)

--------------------------------------------------------------------------
(* One request and the thread it starts *)

Handler ==
    \/ MakeWorkDir \/ WriteUpload \/ ConvertToWav \/ Measure
    \/ SplitAudio \/ Loop
    \/ CEncode \/ CProbe \/ CHalf1 \/ CHalf2 \/ CMerge
    \/ MergeFinal \/ Schedule \/ Respond

\* process_audio passes delete_later its own directory only
Next == Handler \/ Tick \/ \E w \in Workers : DirWorkerStep(w)

Spec == Init /\ [][Next]_vars

--------------------------------------------------------------------------
(* delete_later called again on paths of a workspace whose deletion is     *)
(* already scheduled: two threads work on the same paths.                  *)

\* the path arguments tried for the further call
DeletePaths == {<<work_dir>>, <<out_path>>, <<final_path, work_dir>>}

\* (threads are numbered in the order they are started)
ConcurrentDelete(w) ==
    /\ w # 1
    /\ workers[w - 1].st # "idle"
    /\ \E ps \in DeletePaths : DeleteLater(w, ps, delay)
    /\ UNCHANGED <<inputs, enc, get_resp, pc, fs, locals, resp, log>>

\* a request that compressed the whole file and is about to call
\* delete_later (line 201)
CompressedWorkspace ==
    /\ max_mb = 5
    /\ audio_seconds = 100
    /\ mode = "single"
    /\ dirs = {work_dir}
    /\ files = Put(Put(Put(<< >>, in_path, 0),
                       wav_path, WavSize(100)), out_path, MiB)
    /\ parts = << >>
    /\ ogg_parts = << >>
    /\ concat_list = << >>
    /\ log = {}

\* a request that split, transcoded and merged and is about to call
\* delete_later (line 188)
MergedWorkspace ==
    /\ max_mb = 5
    /\ audio_seconds = 200
    /\ mode = "split"
    /\ dirs = {work_dir, parts_dir}
    /\ files = Put(Put(Put(Put(Put(<< >>, in_path, 0),
                       wav_path, WavSize(200)), PartWav(0), WavSize(200)),
                       ReplaceExt(PartWav(0)), MiB), final_path, MiB)
    /\ parts = <<0>>
    /\ ogg_parts = <<ReplaceExt(PartWav(0))>>
    /\ concat_list = ogg_parts
    /\ log = {"split_audio"}

InitDelete ==
    /\ filename = PlainName
    /\ CompressedWorkspace \/ MergedWorkspace
    /\ bitrate = Bitrate(WavSize(audio_seconds))
    /\ cmd_bitrate = bitrate
    /\ get_resp = NoGet
    /\ delay \in Delays
    /\ segment_seconds = SEGMENT_SECONDS
    /\ pc = "schedule"
    /\ probe_duration = -1
    /\ resp = NoResponse
    /\ workers = [w \in Workers |-> IdleWorker]

NextDelete ==
    \/ Schedule
    \/ Respond
    \/ Tick
    \/ \E w \in Workers : WorkerStep(w) \/ ConcurrentDelete(w)

SpecDelete == InitDelete /\ [][NextDelete]_vars

--------------------------------------------------------------------------
(* split_audio, the transcoding loop and merge_ogg_files on many segments: *)
(* split_audio is called with any segment_seconds, and every segment is    *)
(* transcoded at the first attempt.                                        *)

SplitDurations ==
    {d \in 1..MaxSegments : d <= SmallSegments \/ d >= MaxSegments - 1}

InitSplit ==
    /\ filename = PlainName
    /\ bitrate = 0
    /\ cmd_bitrate = 0
    /\ get_resp = NoGet
    /\ max_mb = 0
    /\ audio_seconds \in SplitDurations
    /\ delay = 0
    /\ segment_seconds \in {1, SEGMENT_SECONDS}
    /\ pc = "split"
    /\ mode = "split"
    /\ dirs = {work_dir}
    /\ files = Put(Put(<< >>, in_path, 0), wav_path, WavSize(audio_seconds))
    /\ parts = << >>
    /\ ogg_parts = << >>
    /\ probe_duration = -1
    /\ concat_list = << >>
    /\ resp = NoResponse
    /\ log = {}
    /\ workers = [w \in Workers |-> IdleWorker]

\* lines 180-184 when compress_to_ogg succeeds on every segment
TranscodeAll ==
    /\ pc = "loop"
    /\ ogg_parts = << >>
    /\ ogg_parts' = [k \in 1..Len(parts) |-> ReplaceExt(PartWav(parts[k]))]
    /\ files' = [q \in (DOMAIN files)
                        \cup {ReplaceExt(PartWav(parts[k])) : k \in 1..Len(parts)}
                    |-> IF q \in DOMAIN files THEN files[q] ELSE MiB]
    /\ pc' = "merge_final"
    /\ UNCHANGED <<inputs, enc, get_resp, dirs, mode, parts, probe_duration,
                   concat_list, resp, log, workers>>

NextSplit == SplitAudio \/ TranscodeAll \/ MergeFinal

SpecSplit == InitSplit /\ [][NextSplit]_vars

--------------------------------------------------------------------------
(* compress_to_ogg alone, on one input file of any size: the sizes on     *)
(* both sides of the two thresholds, and the thresholds themselves.        *)

\* sizes in bytes (16-bit samples: even)
CompressSizes ==
    {k * MiB + e : k \in {1, 10, 20, 30, 40}, e \in {-2, 0, 2}}

InitCompress ==
    /\ filename = PlainName
    /\ \E size \in CompressSizes :
          /\ files = Put(Put(<< >>, in_path, 0), wav_path, size)
          /\ audio_seconds = size \div WavSize(1)
          /\ max_mb = (size + MiB - 1) \div MiB
    /\ delay = 0
    /\ segment_seconds = SEGMENT_SECONDS
    /\ pc = "c_encode"
    /\ mode = "single"
    /\ dirs = {work_dir}
    /\ parts = << >>
    /\ ogg_parts = << >>
    /\ probe_duration = -1
    /\ concat_list = << >>
    /\ resp = NoResponse
    /\ log = {}
    /\ workers = [w \in Workers |-> IdleWorker]
    /\ bitrate = 0
    /\ cmd_bitrate = 0
    /\ get_resp = NoGet

NextCompress == CEncode \/ CProbe \/ CHalf1 \/ CHalf2 \/ CMerge

SpecCompress == InitCompress /\ [][NextCompress]_vars

--------------------------------------------------------------------------
(* serve_file: GET /files/{subpath} requests arrive while a request that   *)
(* has produced its artifact responds and its deletion thread runs.        *)

\* the subpaths asked for: the workspace, the parts directory, the artifacts
ServePaths == {work_dir, parts_dir, out_path, final_path}

\* lines 151-153: os.path.exists(full); HTTP 404 when it is false
ServeCheck ==
    /\ get_resp.status # "pending"
    /\ \E p \in ServePaths :
          get_resp' =
              IF ~Exists(files, dirs, p)
              THEN [path |-> p, found |-> "absent", status |-> "404"]
              ELSE [path |-> p,
                    found |-> IF p \in dirs THEN "dir" ELSE "file",
                    status |-> "pending"]
    /\ UNCHANGED <<inputs, enc, pc, fs, locals, resp, log, workers>>

\* line 154: FileResponse(full) sends the content of a regular file; for
\* a directory, or a path that exists no more, it raises and the server
\* answers HTTP 500
ServeSend ==
    /\ get_resp.status = "pending"
    /\ get_resp' =
          [get_resp EXCEPT !.status =
              IF get_resp.path \in DOMAIN files THEN "200" ELSE "500"]
    /\ UNCHANGED <<inputs, enc, pc, fs, locals, resp, log, workers>>

ServeFile == ServeCheck \/ ServeSend

NextServe ==
    \/ Schedule
    \/ Respond
    \/ Tick
    \/ \E w \in Workers : DirWorkerStep(w)
    \/ ServeFile

SpecServe == InitDelete /\ [][NextServe]_vars

--------------------------------------------------------------------------
(* Requests whose upload carries any file name: file.filename is joined    *)
(* to work_dir as the client sent it (line 163).                           *)

\* a plain name, the names the program gives its own artifacts, and a name
\* with a leading ".." component
Filenames ==
    {PlainName, Name(0, "converted.wav"), Name(0, "compressed.ogg"),
     Name(0, "merged_final.ogg"), Name(0, "parts"), Name(1, "upload")}

InitNames ==
    /\ filename \in Filenames
    /\ max_mb = 5
    /\ audio_seconds \in {100, 900}
    /\ delay \in Delays
    /\ segment_seconds = SEGMENT_SECONDS
    /\ InitRequest

SpecNames == InitNames /\ [][Next]_vars

--------------------------------------------------------------------------
(* Properties *)

Ceiling == max_mb * MiB
Done == pc = "done"
SplitResponse == resp.status = "ok" /\ resp.mode = "split_compressed_merged"
SingleResponse == resp.status = "ok" /\ resp.mode = "compressed"

\* C1: the artifact named in a successful response ("compressed" or
\* "split_compressed_merged", the only modes a success carries, neither of
\* which reports a degradation) is never larger than the ceiling.
C1_CeilingNeverSilentlyExceeded ==
    (resp.status = "ok" /\ resp.artifact \in DOMAIN files)
        => files[resp.artifact] <= Ceiling

\* C2: a request that created its workspace and ended, in a success or in
\* an HTTP 500, has scheduled the deletion of the workspace.
C2_DeletionScheduledOnEveryBranch ==
    (Done /\ resp.status \in {"ok", "http500"}) => workers[1].st # "idle"

\* C3: on the split path a failed transcoding of one segment (a tool error
\* or a timeout) never ends the request before every segment is transcoded.
C3_SegmentFailureNeverAbortsBatch ==
    ~ /\ Done
      /\ mode = "split"
      /\ resp.status = "http500"
      /\ log \cap {"encode_error", "encode_timeout"} # {}
      /\ Len(ogg_parts) < Len(parts)

\* the normalized file has been measured and is not larger than the ceiling
MeasuredWithinCeiling ==
    /\ pc \notin {"makedirs", "upload", "convert", "measure"}
    /\ resp.status # "unhandled"
    /\ wav_path \in DOMAIN files
    /\ files[wav_path] <= Ceiling

\* C4, as claimed: for a normalized file within the ceiling split_audio is
\* not invoked, the input is not split into parts on any path (the
\* compression-timeout path included), and a success has mode "compressed".
C4_NoSplittingWithinCeiling ==
    MeasuredWithinCeiling =>
        /\ "split_audio" \notin log
        /\ "halves" \notin log
        /\ resp.status = "ok" => resp.mode = "compressed"

\* C4, amended: for a normalized file within the ceiling split_audio is not
\* invoked (no parts directory, no segment list) and a success has mode
\* "compressed"; the input may still be encoded as two halves after a
\* compression timeout.
C4_SplitterNotInvokedWithinCeiling ==
    MeasuredWithinCeiling =>
        /\ "split_audio" \notin log
        /\ parts_dir \notin dirs
        /\ parts = << >>
        /\ resp.status = "ok" => resp.mode = "compressed"

\* a success within the ceiling that went through the timeout path
C4_Witness ==
    /\ MeasuredWithinCeiling
    /\ SingleResponse
    /\ "halves" \in log

\* C5: whenever the measured size exceeds the ceiling the segmentation
\* yields at least 2 parts, and a split response reports parts_count >= 2.
C5_AtLeastTwoParts ==
    /\ parts # << >> => Len(parts) >= 2
    /\ SplitResponse => resp.parts_count >= 2

\* C6: the list split_audio returns, ogg_parts and the concat list of
\* merge_ogg_files are all in segment index order 0, 1, ..., N-1.
C6_IndexOrder ==
    /\ \A k \in 1..Len(parts) : parts[k] = k - 1
    /\ \A k \in 1..Len(ogg_parts) : ogg_parts[k] = ReplaceExt(PartWav(k - 1))
    /\ \A k \in 1..Len(concat_list) :
          concat_list[k] = ReplaceExt(PartWav(k - 1))

\* C7: a request whose whole-file compression timed out ends in a result
\* (a success built from the fallback, or a structured fallback response),
\* also when an operation of the fallback path fails; the handler builds no
\* structured {ok:false} response, so the result can only be a success.
C7_TimeoutEndsInResult ==
    (Done /\ mode = "single" /\ "encode_timeout" \in log)
        => resp.status = "ok"

\* C8: every failure of the handler, workspace creation and upload writing
\* included, ends in an HTTP 500 whose detail carries the error's message.
C8_EveryFailureIsHttp500 ==
    (Done /\ resp.status # "ok")
        => (resp.status = "http500" /\ resp.detail # "")

\* C9: after merge_ogg_files has returned or raised, no list file
\* (output_path + ".txt") exists.
C9_ListFileRemovedOnEveryExit ==
    \A p \in DOMAIN files : p.suffix # ".txt"

\* C10: delete_later returns without waiting for its thread (the handler
\* can respond whatever the threads do); no thread raises, also when its
\* path was removed under it by another thread; a thread that is not done
\* can go on; and once a thread is done, none of its paths exists.
C10_DeleteNeverBlocksAndIsIdempotent ==
    /\ pc = "respond" => ENABLED Respond
    /\ \A w \in Workers :
          /\ workers[w].st # "raised"
          /\ workers[w].st \in {"sleeping", "next", "rmtree", "remove"}
                => ENABLED (Tick \/ WorkerStep(w))
          /\ workers[w].st = "done"
                => \A k \in 1..Len(workers[w].paths) :
                      ~Exists(files, dirs, workers[w].paths[k])

\* every thread is done, one of them after os.remove raised because another
\* had removed the file first, and the request has ended
C10_Witness ==
    /\ \A w \in Workers : workers[w].st = "done"
    /\ \E w \in Workers : workers[w].caught
    /\ Done


\* the states the deletion runs start in are states a request reaches
CompressedWorkspaceReached == pc = "schedule" /\ CompressedWorkspace
MergedWorkspaceReached == pc = "schedule" /\ MergedWorkspace

\* C11: once the request has split its input, the number of segments is
\* max(2, ceil(size / ceiling)), the window is ceil(duration / partCount)
\* seconds, and a successful response reports that count.
C11_PlanIsDurationProportional ==
    parts # << >> =>
        LET size == WavSize(audio_seconds)
            byCeiling == (size + Ceiling - 1) \div Ceiling
            partCount == IF byCeiling < 2 THEN 2 ELSE byCeiling
        IN  /\ Len(parts) = partCount
            /\ segment_seconds = (audio_seconds + partCount - 1) \div partCount
            /\ SplitResponse => resp.parts_count = partCount

\* C12: the duration probe always hands a duration (0 when it failed) to
\* the two half encodes; it never ends the compression with an exception.
C12_ProbeFailureYieldsZero ==
    [][(pc = "c_probe" /\ pc' # pc)
          => (pc' = "c_half1" /\ probe_duration' >= 0)]_vars

\* C13: every encoder command compress_to_ogg runs, the two of the timeout
\* fallback included, carries the bitrate that the size of the input file
\* alone selects: 48k below 10 MB, 32k from 10 MB to below 30 MB, 24k from
\* 30 MB on; and of two input sizes the larger never selects the higher
\* bitrate.
C13_BitrateBySizeAlone ==
    /\ cmd_bitrate # 0 =>
          LET size == files[wav_path]
          IN  /\ size < 10 * MiB => cmd_bitrate = 48
              /\ (10 * MiB <= size /\ size < 30 * MiB) => cmd_bitrate = 32
              /\ size >= 30 * MiB => cmd_bitrate = 24
    /\ \A a, b \in CompressSizes : a <= b => Bitrate(a) >= Bitrate(b)

\* the encode of a file of exactly 10 MB has timed out and both halves have
\* been encoded at the medium bitrate
C13_Witness ==
    /\ pc = "c_merge"
    /\ files[wav_path] = 10 * MiB
    /\ "encode_timeout" \in log
    /\ cmd_bitrate = 32

\* C14: a GET /files request is answered by what the path was when the
\* request looked at it: 404 for nothing, the content for a file, a listing
\* for a directory.
C14_ServeByPathState ==
    get_resp.status \notin {"none", "pending"} =>
        /\ get_resp.found = "absent" => get_resp.status = "404"
        /\ get_resp.found = "file" => get_resp.status = "200"
        /\ get_resp.found = "dir" => get_resp.status = "listing"

\* C15: from the call of delete_later to the response of a request that
\* compressed the whole file, compressed.ogg stays in place, and the
\* request ends in success whatever the deletion thread has done meanwhile.
C15_WorkspaceKeptWhileInUse ==
    (mode = "single" /\ workers[1].st # "idle") =>
        /\ pc = "respond" => out_path \in DOMAIN files
        /\ Done => resp.status = "ok"

\* C16: a file of the request, once written, is never written again: no
\* step changes the content of a file that was there before the step.
C16_NoArtifactOverwritten ==
    [][\A p \in (DOMAIN files) \cap (DOMAIN files') : files'[p] = files[p]]_vars

\* C17: every file the request has written lies in its own workspace.
C17_WritesStayInWorkspace ==
    \A p \in DOMAIN files : p.up = 0

\* C18: in a successful "split_compressed_merged" response parts_count is
\* the number of segments split_audio produced, the transcoded file of each
\* segment stands exactly once in the list of transcoded parts, and that
\* list is the one merge_ogg_files was given.
C18_EverySegmentExactlyOnce ==
    SplitResponse =>
        LET n == SegmentCount(audio_seconds, segment_seconds)
        IN  /\ resp.parts_count = n
            /\ Len(parts) = n
            /\ Len(ogg_parts) = n
            /\ \A i \in 0..(n - 1) :
                  Cardinality({k \in 1..Len(ogg_parts) :
                                  ogg_parts[k] = ReplaceExt(PartWav(i))}) = 1
            /\ concat_list = ogg_parts

\* a request split into three segments has answered with success after the
\* encode of a segment timed out and went through the two halves
C18_Witness ==
    /\ SplitResponse
    /\ resp.parts_count = 3
    /\ "encode_timeout" \in log

=============================================================================
